---- MODULE Spec2Model ----
(***************************************************************************)
(* A model of chirouter's frame dispatcher, src/src/c/router.c:             *)
(* chirouter_process_ethernet_frame and its helpers, together with the ARP *)
(* cache, the pending ARP request list, the ARP lock and the background    *)
(* ARP timer thread that shares them.                                      *)
(*                                                                         *)
(* Addresses are small naturals standing for the uint32 values the code    *)
(* compares; header fields hold their wire values where the code converts  *)
(* them (EtherType, ARP opcode, IP total length), so ntohs/htons are the   *)
(* byte swap they are on the little-endian hosts the router runs on.       *)
(* Checksums are not modelled.                                             *)
(***************************************************************************)
EXTENDS Integers, Sequences, FiniteSets, TLC

VARIABLES
    routing_table,     \* ctx->routing_table (read-only after construction)
    arpcache,          \* ctx->arpcache: IP -> MAC, 0 = no valid entry
    pending_arp_reqs,  \* ctx->pending_arp_reqs: list of pending ARP requests
    lock_arp,          \* ctx->lock_arp: "free", "dispatch" or "timer"
    mutexKind,         \* what relocking ctx->lock_arp does in this build
    pc,                \* position of the dispatch thread
    frame,             \* the frame of the current (or last) dispatch call
    forward_entry,     \* local forward_entry (index into routing_table, 0 = NULL)
    forward_ip,        \* local forward_ip
    pending_req,       \* local pending_req (id of a pending request, 0 = NULL)
    ret,               \* value returned by the last dispatch call
    log,               \* history: frames received, frames sent, queue events
    nrecv,             \* number of frames delivered so far
    snap,              \* the ARP cache and pending requests at that delivery
    nsweeps,           \* number of timer sweeps that found work so far
    nalloc             \* number of pending requests allocated so far

vars == <<routing_table, arpcache, pending_arp_reqs, lock_arp, mutexKind, pc,
          frame, forward_entry, forward_ip, pending_req, ret, log, nrecv, snap,
          nsweeps, nalloc>>

(***************************************************************************)
(* Bounds of the model.                                                    *)
(***************************************************************************)
MaxIP == 15          \* addresses are 0..MaxIP
MaxFrames == 3       \* frames delivered to the router in one behaviour
MaxRoutes == 3       \* routing table length in the lookup specification
MaxSweeps == 2       \* timer sweeps that find work in one behaviour
MaxArpTries == 2     \* ARP requests sent for a target before it expires

IP == 0..MaxIP

(***************************************************************************)
(* Protocol constants used by router.c.                                    *)
(***************************************************************************)
ETHERTYPE_IP == 2048
ETHERTYPE_ARP == 2054
ETHERTYPE_IPV6 == 34525
IPPROTO_ICMP == 1
IPPROTO_TCP == 6
IPPROTO_UDP == 17
ARP_OP_REQUEST == 1
ARP_OP_REPLY == 2
ICMPTYPE_ECHO_REPLY == 0
ICMPTYPE_DEST_UNREACHABLE == 3
ICMPTYPE_ECHO_REQUEST == 8
ICMPTYPE_TIME_EXCEEDED == 11
ICMPCODE_DEST_NET_UNREACHABLE == 0
ICMPCODE_DEST_HOST_UNREACHABLE == 1
ICMPCODE_DEST_PROTOCOL_UNREACHABLE == 2
ICMPCODE_DEST_PORT_UNREACHABLE == 3
ICMP_HDR_SIZE == 8
ETH_HDR_SIZE == 14
IP_HDR_SIZE == 20
ICMP_REPLY_TTL == 64
BROADCAST_MAC == 255

\* ntohs / htons on a little-endian host: swap the two bytes of a uint16.
ntohs(x) == (x % 256) * 256 + ((x \div 256) % 256)
htons(x) == ntohs(x)

\* Bitwise AND of two naturals (the C operator & on uint32 values).
RECURSIVE BitAnd(_, _)
BitAnd(a, b) ==
    IF a = 0 \/ b = 0 THEN 0
    ELSE (a % 2) * (b % 2) + 2 * BitAnd(a \div 2, b \div 2)

(***************************************************************************)
(* The router's interfaces (ctx->interfaces) and the routing table used by *)
(* the dispatch specification.                                             *)
(***************************************************************************)
interfaces == << [ip |-> 5, mac |-> 21], [ip |-> 9, mac |-> 22] >>

Route(d, m, g, i) == [dest |-> d, mask |-> m, gw |-> g, interface |-> i]

\* 4..7 directly on interface 1, 8..11 directly on interface 2, 12..15 via
\* the gateway 10, 14..15 (more specific) via a gateway that is the address
\* of interface 1 itself; 0..3 have no route.
RoutingTable ==
    << Route(4, 12, 0, 1), Route(8, 12, 0, 2), Route(12, 12, 10, 2),
       Route(14, 14, 5, 1) >>

(***************************************************************************)
(* Frames.  One record shape serves every frame, received or transmitted;  *)
(* fields a frame does not carry are 0 (payload: the empty sequence).      *)
(* id is the arrival number of the inbound frame (0 on transmitted ones).  *)
(***************************************************************************)
NoFrame ==
    [id |-> 0, type |-> 0, in_interface |-> 0, length |-> 0,
     eth_src |-> 0, eth_dst |-> 0,
     len |-> 0, src |-> 0, dst |-> 0, ttl |-> 0, proto |-> 0,
     icmp_type |-> 0, icmp_code |-> 0, ident |-> 0, seq |-> 0,
     payload |-> << >>, quoted_src |-> 0, quoted_dst |-> 0,
     op |-> 0, spa |-> 0, sha |-> 0, tpa |-> 0, tha |-> 0]

HostMac(ip) == 100 + ip

\* An inbound IP datagram carrying an ICMP-shaped body (identifier, sequence
\* number, payload); for other protocols the same bytes are transport data.
IPFrame(ethertype, iface, s, d, t, pr, ty, idn, sq, pl) ==
    [NoFrame EXCEPT
        !.type = htons(ethertype), !.in_interface = iface,
        !.length = ETH_HDR_SIZE + IP_HDR_SIZE + ICMP_HDR_SIZE + Len(pl),
        !.eth_src = HostMac(s), !.eth_dst = interfaces[iface].mac,
        !.len = htons(IP_HDR_SIZE + ICMP_HDR_SIZE + Len(pl)),
        !.src = s, !.dst = d, !.ttl = t, !.proto = pr,
        !.icmp_type = ty, !.ident = idn, !.seq = sq, !.payload = pl]

\* An inbound ARP message.
ARPFrame(iface, o, s, t) ==
    [NoFrame EXCEPT
        !.type = htons(ETHERTYPE_ARP), !.in_interface = iface,
        !.length = ETH_HDR_SIZE + 28,
        !.eth_src = HostMac(s), !.eth_dst = interfaces[iface].mac,
        !.op = htons(o), !.spa = s, !.sha = HostMac(s), !.tpa = t,
        !.tha = IF o = ARP_OP_REPLY THEN interfaces[iface].mac ELSE 0]

\* A frame of an EtherType the router does not handle (0x88CC, LLDP).
OtherFrame(iface, s) ==
    [NoFrame EXCEPT
        !.type = htons(35020), !.in_interface = iface,
        !.length = ETH_HDR_SIZE, !.eth_src = HostMac(s),
        !.eth_dst = interfaces[iface].mac]

\* One entry of the history.  kind: "recv" (frame f delivered to dispatch),
\* "arp", "icmp", "fwd" (frame f handed to chirouter_send_frame on interface
\* iface: an ARP message for ip, an ICMP message about inbound frame id, the
\* forwarded inbound frame id), "miss" (the cache lookup for the next hop ip
\* of inbound frame id found nothing), "expire" (the timer dropped the
\* pending request for ip).  by: "net", "dispatch" or "timer".
Ev(kind, by, iface, id, ip, f) ==
    [kind |-> kind, by |-> by, iface |-> iface, id |-> id, ip |-> ip, f |-> f]

(***************************************************************************)
(* Helpers of router.c.                                                    *)
(***************************************************************************)
get_forward_ip(routing_entry, dst_ip) ==
    IF routing_entry.gw # 0 THEN routing_entry.gw ELSE dst_ip

\* One iteration of the loop of chirouter_get_matching_entry: the value of
\* result after entry i has been examined.
MatchStep_AcceptEqualMask(rt, dst, i, result) ==
    IF BitAnd(dst, rt[i].mask) = rt[i].dest
    THEN IF result # 0
         THEN IF rt[result].mask <= rt[i].mask THEN i ELSE result
         ELSE i
    ELSE result

MatchStep(rt, dst, i, result) ==
    IF BitAnd(dst, rt[i].mask) = rt[i].dest
    THEN IF result # 0
         THEN IF rt[result].mask < rt[i].mask THEN i ELSE result
         ELSE i
    ELSE result

RECURSIVE MatchLoop(_, _, _, _)
MatchLoop(rt, dst, i, result) ==
    IF i > Len(rt) THEN result
    ELSE MatchLoop(rt, dst, i + 1, MatchStep(rt, dst, i, result))

\* The index of the selected entry, 0 for NULL.
chirouter_get_matching_entry(rt, f) == MatchLoop(rt, f.dst, 1, 0)

chirouter_find_match_router_IngressOnly(f) ==
    interfaces[f.in_interface].ip = f.dst

chirouter_find_match_router(f) ==
    \E i \in 1..Len(interfaces) : interfaces[i].ip = f.dst

\* forward_ip_datagram: the frame handed to chirouter_send_frame and the
\* interface it is sent on.  The Ethernet header is not touched.
forward_ip_datagram(rt, f) ==
    LET ttl1 == (f.ttl + 255) % 256
        rentry == chirouter_get_matching_entry(rt, f)
        out == [f EXCEPT !.ttl = ttl1,
                         !.dst = get_forward_ip(rt[rentry], f.dst)]
    IN  Ev("fwd", "dispatch", rt[rentry].interface, f.id, 0,
           [out EXCEPT !.id = 0, !.in_interface = 0])

IsEcho(type) == type = ICMPTYPE_ECHO_REPLY \/ type = ICMPTYPE_ECHO_REQUEST

\* chirouter_send_icmp: the frame handed to chirouter_send_frame.  g is the
\* content of the memory behind the end of the frame buffer, which the echo
\* branch reads because payload_len counts the IP header as payload.
chirouter_send_icmp(type, code, f, g) ==
    LET payload_len == IF IsEcho(type) THEN ntohs(f.len) - ICMP_HDR_SIZE
                       ELSE IP_HDR_SIZE + 8
        reply_len == ETH_HDR_SIZE + IP_HDR_SIZE + ICMP_HDR_SIZE + payload_len
        in_if == interfaces[f.in_interface]
        copied == [i \in 1..payload_len |->
                      IF i <= Len(f.payload) THEN f.payload[i] ELSE g]
    IN  [NoFrame EXCEPT
            !.type = htons(ETHERTYPE_IP), !.length = reply_len,
            !.eth_dst = f.eth_src, !.eth_src = in_if.mac,
            !.proto = IPPROTO_ICMP, !.dst = f.src, !.src = in_if.ip,
            !.len = IF IsEcho(type) THEN htons(f.length - ETH_HDR_SIZE)
                    ELSE htons(IP_HDR_SIZE + ICMP_HDR_SIZE + payload_len),
            !.ttl = ICMP_REPLY_TTL,
            !.icmp_type = type, !.icmp_code = code,
            !.ident = IF IsEcho(type) /\ code = 0 THEN f.ident ELSE 0,
            !.seq = IF IsEcho(type) /\ code = 0 THEN htons(0) ELSE 0,
            !.payload = IF IsEcho(type) /\ code = 0 THEN copied ELSE << >>,
            !.quoted_src = IF IsEcho(type) THEN 0 ELSE in_if.ip,
            !.quoted_dst = IF IsEcho(type) THEN 0 ELSE f.src]

SendIcmp(by, type, code, f, g) ==
    Ev("icmp", by, f.in_interface, f.id, 0, chirouter_send_icmp(type, code, f, g))

(***************************************************************************)
(* The ARP module (arp.h): cache, pending request list, ARP messages.      *)
(***************************************************************************)
chirouter_arp_cache_lookup(cache, ip) == cache[ip]

chirouter_arp_cache_add(cache, ip, mac) == [cache EXCEPT ![ip] = mac]

\* The id of the first pending request for ip, 0 (NULL) when there is none.
chirouter_arp_pending_req_lookup(reqs, ip) ==
    IF \E i \in 1..Len(reqs) : reqs[i].ip = ip
    THEN reqs[CHOOSE i \in 1..Len(reqs) :
                 /\ reqs[i].ip = ip
                 /\ \A j \in 1..(i - 1) : reqs[j].ip # ip].rid
    ELSE 0

chirouter_arp_pending_req_add(reqs, rid, ip, iface) ==
    Append(reqs, [rid |-> rid, ip |-> ip, interface |-> iface,
                  times_sent |-> 1, withheld_frames |-> << >>])

\* Appends a deep copy of f to the withheld frames of request rid.
chirouter_arp_pending_req_add_frame(reqs, rid, f) ==
    [i \in 1..Len(reqs) |->
        IF reqs[i].rid = rid
        THEN [reqs[i] EXCEPT !.withheld_frames = Append(@, f)]
        ELSE reqs[i]]

\* DL_DELETE(ctx->pending_arp_reqs, req)
RemoveReq(reqs, rid) == SelectSeq(reqs, LAMBDA r : r.rid # rid)

ReqById(reqs, rid) == reqs[CHOOSE i \in 1..Len(reqs) : reqs[i].rid = rid]

Live(reqs, rid) == \E i \in 1..Len(reqs) : reqs[i].rid = rid

\* chirouter_send_arp_message(ctx, iface, dst_mac, dst_ip, op): the ARP
\* message sent on interface iface; dst_mac 0 (NULL) means broadcast.
chirouter_send_arp_message(by, iface, dst_mac, dst_ip, o, id) ==
    Ev("arp", by, iface, id, dst_ip,
       [NoFrame EXCEPT
           !.type = htons(ETHERTYPE_ARP), !.length = ETH_HDR_SIZE + 28,
           !.eth_src = interfaces[iface].mac,
           !.eth_dst = IF dst_mac = 0 THEN BROADCAST_MAC ELSE dst_mac,
           !.op = htons(o), !.spa = interfaces[iface].ip,
           !.sha = interfaces[iface].mac, !.tpa = dst_ip, !.tha = dst_mac])

(***************************************************************************)
(* ctx->lock_arp.  The dispatch thread locks the mutex it already holds at *)
(* line 406 (and, after that, at the next lock); on a default mutex this   *)
(* is undefined: the build either blocks forever ("normal") or has the     *)
(* call fail with the mutex still held ("errorcheck").  The kind is fixed  *)
(* per build and recorded the first time it shows.                         *)
(***************************************************************************)
MutexKinds == {"normal", "errorcheck"}

Kinds == IF mutexKind = "unknown" THEN MutexKinds ELSE {mutexKind}

\* Whether the dispatch thread can get past pthread_mutex_lock at all.
CanLock == lock_arp # "timer"

\* The kinds this lock call can reveal.
LockKinds == IF lock_arp = "dispatch" THEN Kinds ELSE {mutexKind}

\* The lock call never returns.
Blocks(k) == lock_arp = "dispatch" /\ k = "normal"

locals == <<frame, forward_entry, forward_ip, pending_req, nrecv, snap, nsweeps>>

Deadlock ==
    /\ pc' = "deadlocked"
    /\ UNCHANGED <<routing_table, arpcache, pending_arp_reqs, lock_arp,
                   locals, ret, log, nalloc>>

(***************************************************************************)
(* chirouter_process_ethernet_frame.                                       *)
(***************************************************************************)
Garbage == {0, 255}

RetVals == {-1, 0, 1}

\* Lines 275-308: what is sent for a datagram addressed to the ingress
\* interface.
SelfDestined_NoElse(f, g) ==
       (IF f.proto = IPPROTO_TCP \/ f.proto = IPPROTO_UDP
        THEN << SendIcmp("dispatch", ICMPTYPE_DEST_UNREACHABLE,
                         ICMPCODE_DEST_PORT_UNREACHABLE, f, g) >>
        ELSE << >>)
    \o (IF f.ttl = 1
        THEN << SendIcmp("dispatch", ICMPTYPE_TIME_EXCEEDED, 0, f, g) >>
        ELSE IF f.proto = IPPROTO_ICMP
        THEN IF f.icmp_type = ICMPTYPE_ECHO_REQUEST
             THEN << SendIcmp("dispatch", ICMPTYPE_ECHO_REPLY, 0, f, g) >>
             ELSE << >>
        ELSE IF f.proto = IPPROTO_TCP \/ f.proto = IPPROTO_UDP
        THEN << >>
        ELSE << SendIcmp("dispatch", ICMPTYPE_DEST_UNREACHABLE,
                         ICMPCODE_DEST_PROTOCOL_UNREACHABLE, f, g) >>)

SelfDestined(f, g) ==
    IF f.proto = IPPROTO_TCP \/ f.proto = IPPROTO_UDP
    THEN << SendIcmp("dispatch", ICMPTYPE_DEST_UNREACHABLE,
                     ICMPCODE_DEST_PORT_UNREACHABLE, f, g) >>
    ELSE IF f.ttl = 1
    THEN << SendIcmp("dispatch", ICMPTYPE_TIME_EXCEEDED, 0, f, g) >>
    ELSE IF f.proto = IPPROTO_ICMP
    THEN IF f.icmp_type = ICMPTYPE_ECHO_REQUEST
         THEN << SendIcmp("dispatch", ICMPTYPE_ECHO_REPLY, 0, f, g) >>
         ELSE << >>
    ELSE << SendIcmp("dispatch", ICMPTYPE_DEST_UNREACHABLE,
                     ICMPCODE_DEST_PROTOCOL_UNREACHABLE, f, g) >>

\* Lines 363-368: no routing entry matches.
NoRoute_HostUnreachable(f, g) ==
    << SendIcmp("dispatch", ICMPTYPE_DEST_UNREACHABLE,
                ICMPCODE_DEST_HOST_UNREACHABLE, f, g) >>

NoRoute(f, g) ==
    << SendIcmp("dispatch", ICMPTYPE_DEST_UNREACHABLE,
                ICMPCODE_DEST_NET_UNREACHABLE, f, g) >>

\* Lines 309-314: the destination is some interface of the router.
OtherInterface(f, g) ==
    << SendIcmp("dispatch", ICMPTYPE_DEST_UNREACHABLE,
                ICMPCODE_DEST_HOST_UNREACHABLE, f, g) >>

\* The dispatch call returns r.  -1 shuts the router down (lines 255-257).
Return(r) ==
    /\ ret' = r
    /\ pc' = IF r = -1 THEN "shutdown" ELSE "idle"

\* Lines 262-322, 363-425: entry of the call up to the first use of the ARP
\* lock, or to the return when the branch taken never locks.
Receive(f0) ==
    /\ pc = "idle"
    /\ nrecv < MaxFrames
    /\ LET f == [f0 EXCEPT !.id = nrecv + 1]
           hdr_type == ntohs(f.type)
           base == Append(log, Ev("recv", "net", f.in_interface, f.id, 0, f))
           in_ip == interfaces[f.in_interface].ip
       IN  /\ nrecv' = nrecv + 1
           /\ frame' = f
           /\ snap' = [cache |-> arpcache, reqs |-> pending_arp_reqs]
           /\ UNCHANGED <<routing_table, arpcache, pending_arp_reqs, lock_arp,
                          mutexKind, pending_req, nsweeps, nalloc>>
           /\ IF hdr_type = ETHERTYPE_IP \/ hdr_type = ETHERTYPE_IPV6
              THEN IF f.dst = in_ip
                   THEN /\ \E g \in Garbage : log' = base \o SelfDestined(f, g)
                        /\ Return(0)
                        /\ UNCHANGED <<forward_entry, forward_ip>>
                   ELSE IF chirouter_find_match_router(f)
                   THEN /\ \E g \in Garbage : log' = base \o OtherInterface(f, g)
                        /\ Return(0)
                        /\ UNCHANGED <<forward_entry, forward_ip>>
                   ELSE LET e == chirouter_get_matching_entry(routing_table, f)
                        IN  IF e # 0
                            THEN /\ forward_entry' = e
                                 /\ forward_ip' =
                                        get_forward_ip(routing_table[e], f.dst)
                                 /\ pc' = "cache_lookup"
                                 /\ log' = base
                                 /\ UNCHANGED ret
                            ELSE /\ \E g \in Garbage : log' = base \o NoRoute(f, g)
                                 /\ Return(0)
                                 /\ UNCHANGED <<forward_entry, forward_ip>>
              ELSE IF hdr_type = ETHERTYPE_ARP
              THEN /\ UNCHANGED <<forward_entry, forward_ip>>
                   /\ IF f.tpa = in_ip
                      THEN IF ntohs(f.op) = ARP_OP_REPLY
                           THEN /\ pc' = "arp_cache_add"
                                /\ log' = base
                                /\ UNCHANGED ret
                           ELSE IF ntohs(f.op) = ARP_OP_REQUEST
                           THEN /\ log' = Append(base,
                                       chirouter_send_arp_message("dispatch",
                                           f.in_interface, f.sha, f.spa,
                                           ARP_OP_REPLY, f.id))
                                /\ Return(0)
                           ELSE /\ log' = base
                                /\ Return(0)
                      ELSE /\ log' = base
                           /\ Return(0)
              ELSE \* control reaches the end of the function without a
                   \* return statement: the caller reads an unspecified value
                   /\ UNCHANGED <<forward_entry, forward_ip>>
                   /\ log' = base
                   /\ \E r \in RetVals : Return(r)

\* Lines 349-361: the ARP cache holds the next hop.
CacheHit_NoTtlTest(rt, f, g) == << forward_ip_datagram(rt, f) >>

CacheHit(rt, f, g) ==
    IF f.ttl = 1
    THEN << SendIcmp("dispatch", ICMPTYPE_TIME_EXCEEDED, 0, f, g) >>
    ELSE << forward_ip_datagram(rt, f) >>

\* Lines 323-326 and 349-361: the cache lookup in its own critical section,
\* then the cache-hit branch, which uses no lock.
CacheLookup ==
    /\ pc = "cache_lookup"
    /\ CanLock
    /\ \E k \in LockKinds :
        /\ mutexKind' = k
        /\ IF Blocks(k) THEN Deadlock
           ELSE /\ lock_arp' = "free"
                /\ UNCHANGED <<routing_table, arpcache, pending_arp_reqs,
                               locals, nalloc>>
                /\ IF chirouter_arp_cache_lookup(arpcache, forward_ip) = 0
                   THEN /\ pc' = "pending_lookup"
                        /\ log' = Append(log, Ev("miss", "dispatch", 0,
                                                 frame.id, forward_ip, frame))
                        /\ UNCHANGED ret
                   ELSE /\ \E g \in Garbage :
                              log' = log \o CacheHit(routing_table, frame, g)
                        /\ Return(0)

\* Lines 332-347: the branch taken on the result of the pending lookup.
MissBranch_AlwaysCreate(req) == "create"

MissBranch(req) == IF req = 0 THEN "create" ELSE "append"

\* Lines 329-332: the pending request lookup in its own critical section.
PendingLookup ==
    /\ pc = "pending_lookup"
    /\ CanLock
    /\ \E k \in LockKinds :
        /\ mutexKind' = k
        /\ IF Blocks(k) THEN Deadlock
           ELSE /\ lock_arp' = "free"
                /\ pending_req' =
                       chirouter_arp_pending_req_lookup(pending_arp_reqs, forward_ip)
                /\ pc' = MissBranch(pending_req')
                /\ UNCHANGED <<routing_table, arpcache, pending_arp_reqs, frame,
                               forward_entry, forward_ip, ret, log, nrecv, snap,
                               nsweeps, nalloc>>

\* Lines 337-338: the new pending request with the frame as its first
\* withheld frame.
CreateAndWithhold_NoFrame(reqs, rid, ip, iface, f) ==
    chirouter_arp_pending_req_add(reqs, rid, ip, iface)

CreateAndWithhold(reqs, rid, ip, iface, f) ==
    chirouter_arp_pending_req_add_frame(
        chirouter_arp_pending_req_add(reqs, rid, ip, iface), rid, f)

\* Lines 335-339: send the ARP request, create the pending request, withhold
\* the frame.
CreatePending ==
    /\ pc = "create"
    /\ CanLock
    /\ \E k \in LockKinds :
        /\ mutexKind' = k
        /\ IF Blocks(k) THEN Deadlock
           ELSE /\ lock_arp' = "free"
                /\ nalloc' = nalloc + 1
                /\ log' = log \o
                     << chirouter_send_arp_message("dispatch",
                            frame.in_interface, 0, forward_ip,
                            ARP_OP_REQUEST, frame.id) >>
                /\ pending_arp_reqs' =
                     CreateAndWithhold(pending_arp_reqs, nalloc + 1,
                                       forward_ip, frame.in_interface, frame)
                /\ pending_req' = nalloc + 1
                /\ Return(0)
                /\ UNCHANGED <<routing_table, arpcache, frame, forward_entry,
                               forward_ip, nrecv, snap, nsweeps>>

\* Outcomes of writing through a pointer to a pending request that the timer
\* has freed since the lookup.
StaleOutcomes == {"crash", "lost"}

\* Lines 344-346: append the frame to the pending request found at line 330.
AppendPending ==
    /\ pc = "append"
    /\ CanLock
    /\ \E k \in LockKinds :
        /\ mutexKind' = k
        /\ IF Blocks(k) THEN Deadlock
           ELSE /\ UNCHANGED <<routing_table, arpcache, locals, nalloc>>
                /\ IF Live(pending_arp_reqs, pending_req)
                   THEN /\ pending_arp_reqs' =
                              chirouter_arp_pending_req_add_frame(
                                  pending_arp_reqs, pending_req, frame)
                        /\ lock_arp' = "free"
                        /\ UNCHANGED log
                        /\ Return(0)
                   ELSE \E o \in StaleOutcomes :
                        /\ UNCHANGED <<pending_arp_reqs, log>>
                        /\ IF o = "crash"
                           THEN /\ pc' = "crashed"
                                /\ lock_arp' = "dispatch"
                                /\ UNCHANGED ret
                           ELSE /\ lock_arp' = "free"
                                /\ Return(0)

\* Lines 386-388: the cache update in its own critical section.
ArpCacheAdd ==
    /\ pc = "arp_cache_add"
    /\ CanLock
    /\ \E k \in LockKinds :
        /\ mutexKind' = k
        /\ IF Blocks(k) THEN Deadlock
           ELSE /\ lock_arp' = "free"
                /\ arpcache' = chirouter_arp_cache_add(arpcache, frame.spa, frame.sha)
                /\ pc' = "drain"
                /\ UNCHANGED <<routing_table, pending_arp_reqs, locals, ret, log,
                               nalloc>>

\* Line 395: the pending request the reply is taken to answer.
DrainTarget(f) == interfaces[f.in_interface].ip

\* Lines 397-401: what is sent for the withheld frames, in list order.
RECURSIVE DrainFrames(_, _)
DrainFrames(rt, fs) ==
    IF fs = << >> THEN << >>
    ELSE << forward_ip_datagram(rt, Head(fs)) >> \o DrainFrames(rt, Tail(fs))

\* Lines 403-405: free the withheld frames and unlink the pending request.
DrainRemove_KeepRequest(reqs, rid) == reqs

DrainRemove(reqs, rid) == RemoveReq(reqs, rid)

\* Lines 394-407: look the pending request up, forward its frames, free and
\* unlink it, then lock the mutex again and return.
Drain ==
    /\ pc = "drain"
    /\ CanLock
    /\ \E k \in LockKinds :
        /\ IF Blocks(k) THEN mutexKind' = k /\ Deadlock
           ELSE LET arp_req == chirouter_arp_pending_req_lookup(
                                   pending_arp_reqs, DrainTarget(frame))
                IN  /\ UNCHANGED <<routing_table, arpcache, locals, nalloc>>
                    /\ lock_arp' = "dispatch"
                    /\ IF arp_req = 0
                       THEN \* arp_req->withheld_frames with arp_req NULL
                            /\ pc' = "crashed"
                            /\ mutexKind' = k
                            /\ UNCHANGED <<pending_arp_reqs, ret, log>>
                       ELSE /\ log' = log \o DrainFrames(routing_table,
                                   ReqById(pending_arp_reqs, arp_req).withheld_frames)
                            /\ pending_arp_reqs' = DrainRemove(pending_arp_reqs, arp_req)
                            /\ \E k2 \in (IF k = "unknown" THEN MutexKinds ELSE {k}) :
                                 /\ mutexKind' = k2
                                 /\ IF k2 = "normal"
                                    THEN pc' = "deadlocked" /\ UNCHANGED ret
                                    ELSE Return(0)

(***************************************************************************)
(* The ARP timer thread (arp.h): under the ARP lock it purges stale cache  *)
(* entries and walks the pending requests; a request that has used up its  *)
(* tries is dropped and each of its withheld frames answered with          *)
(* host-unreachable, any other request is sent again.  One sweep is one    *)
(* critical section.                                                       *)
(***************************************************************************)
RECURSIVE HostUnreachables(_)
HostUnreachables(fs) ==
    IF fs = << >> THEN << >>
    ELSE << SendIcmp("timer", ICMPTYPE_DEST_UNREACHABLE,
                     ICMPCODE_DEST_HOST_UNREACHABLE, Head(fs), 0) >>
         \o HostUnreachables(Tail(fs))

RECURSIVE SweepOut(_)
SweepOut(reqs) ==
    IF reqs = << >> THEN << >>
    ELSE LET r == Head(reqs)
         IN  (IF r.times_sent >= MaxArpTries
              THEN HostUnreachables(r.withheld_frames)
                   \o << Ev("expire", "timer", 0, 0, r.ip, NoFrame) >>
              ELSE << chirouter_send_arp_message("timer", r.interface, 0,
                                                 r.ip, ARP_OP_REQUEST, 0) >>)
             \o SweepOut(Tail(reqs))

RECURSIVE SweepReqs(_)
SweepReqs(reqs) ==
    IF reqs = << >> THEN << >>
    ELSE LET r == Head(reqs)
         IN  (IF r.times_sent >= MaxArpTries THEN << >>
              ELSE << [r EXCEPT !.times_sent = @ + 1] >>)
             \o SweepReqs(Tail(reqs))

Running == pc \notin {"crashed", "shutdown"}

\* One sweep of the timer, apart from the count of sweeps.  A sweep that
\* finds no pending request and no cache entry changes nothing.
Sweep ==
    /\ Running
    /\ lock_arp = "free"
    /\ pending_arp_reqs # << >> \/ \E ip \in IP : arpcache[ip] # 0
    /\ \E stale \in SUBSET {ip \in IP : arpcache[ip] # 0} :
           arpcache' = [ip \in IP |-> IF ip \in stale THEN 0 ELSE arpcache[ip]]
    /\ pending_arp_reqs' = SweepReqs(pending_arp_reqs)
    /\ log' = log \o SweepOut(pending_arp_reqs)
    /\ UNCHANGED <<routing_table, lock_arp, mutexKind, pc, frame, forward_entry,
                   forward_ip, pending_req, nrecv, snap, ret, nalloc>>

\* The timer followed for MaxSweeps sweeps.
TimerSweep ==
    /\ nsweeps < MaxSweeps
    /\ nsweeps' = nsweeps + 1
    /\ Sweep

\* The timer followed for as long as it runs.
TimerRun == Sweep /\ UNCHANGED nsweeps

(***************************************************************************)
(* The frames the network delivers in the dispatch specification.          *)
(***************************************************************************)
Echo(iface, s, d, t) ==
    IPFrame(ETHERTYPE_IP, iface, s, d, t, IPPROTO_ICMP, ICMPTYPE_ECHO_REQUEST,
            7, 3, << 1, 2 >>)

Frames ==
    {Echo(1, 6, 14, t) : t \in {1, 2}}
    \cup {Echo(2, 10, 6, t) : t \in {1, 2}}
    \cup {Echo(1, 6, 2, t) : t \in {1, 2}}
    \cup {Echo(1, 6, 9, 2),
          ARPFrame(1, ARP_OP_REPLY, 6, 5),
          ARPFrame(1, ARP_OP_REPLY, 6, 7),
          ARPFrame(1, ARP_OP_REQUEST, 6, 5),
          OtherFrame(1, 6)}

Dispatch == \E f \in Frames : Receive(f)

\* The context after chirouter_ctx_init with an empty ARP cache and no
\* pending request, apart from the routing table.
InitCtx ==
    /\ arpcache = [ip \in IP |-> 0]
    /\ pending_arp_reqs = << >>
    /\ lock_arp = "free"
    /\ mutexKind = "unknown"
    /\ pc = "idle"
    /\ frame = NoFrame
    /\ forward_entry = 0
    /\ forward_ip = 0
    /\ pending_req = 0
    /\ ret = 0
    /\ log = << >>
    /\ nrecv = 0
    /\ snap = [cache |-> [ip \in IP |-> 0], reqs |-> << >>]
    /\ nsweeps = 0
    /\ nalloc = 0

Init == routing_table = RoutingTable /\ InitCtx

Next ==
    \/ Dispatch
    \/ CacheLookup
    \/ PendingLookup
    \/ CreatePending
    \/ AppendPending
    \/ ArpCacheAdd
    \/ Drain
    \/ TimerSweep

Spec == Init /\ [][Next]_vars

(***************************************************************************)
(* The dispatcher with the timer running for as long as the router does.   *)
(* The dispatch thread goes on executing the call it is in and the timer   *)
(* thread gets the lock whenever it stays free; the network need not       *)
(* deliver another frame.                                                  *)
(***************************************************************************)
LiveFrames ==
    {Echo(1, 6, 14, 2), Echo(2, 10, 6, 2), ARPFrame(1, ARP_OP_REPLY, 6, 5)}

DispatchLive == \E f \in LiveFrames : Receive(f)

CallSteps ==
    \/ CacheLookup
    \/ PendingLookup
    \/ CreatePending
    \/ AppendPending
    \/ ArpCacheAdd
    \/ Drain

NextLive ==
    \/ DispatchLive
    \/ CacheLookup
    \/ PendingLookup
    \/ CreatePending
    \/ AppendPending
    \/ ArpCacheAdd
    \/ Drain
    \/ TimerRun

SpecLive ==
    /\ Init
    /\ [][NextLive]_vars
    /\ WF_vars(CallSteps)
    /\ WF_vars(TimerRun)

(***************************************************************************)
(* The datagrams addressed to the router itself: every combination of the  *)
(* protocol, the TTL and the ICMP type that lines 275-308 tell apart, with *)
(* echo requests of different sequence numbers and payloads.               *)
(***************************************************************************)
SelfICMP(t, ty, sq, pl) ==
    IPFrame(ETHERTYPE_IP, 1, 6, interfaces[1].ip, t, IPPROTO_ICMP, ty, 7, sq, pl)

SelfFrames ==
    {SelfICMP(t, ty, sq, << 1, 2 >>) :
        t \in {1, 2}, ty \in {ICMPTYPE_ECHO_REQUEST, ICMPTYPE_ECHO_REPLY},
        sq \in {0, 3}}
    \cup {SelfICMP(64, ICMPTYPE_ECHO_REQUEST, 3, << >>),
          SelfICMP(2, ICMPTYPE_DEST_UNREACHABLE, 0, << >>)}
    \cup {IPFrame(ETHERTYPE_IP, 2, 10, interfaces[2].ip, t, pr, 0, 0, 0, << 1 >>) :
            t \in {1, 2}, pr \in {IPPROTO_TCP, IPPROTO_UDP, 89}}

DispatchSelf == \E f \in SelfFrames : Receive(f)

NextSelf == DispatchSelf

SpecSelf == Init /\ [][NextSelf]_vars

(***************************************************************************)
(* chirouter_get_matching_entry on its own: every routing table of up to   *)
(* MaxRoutes entries (overlapping prefixes, a default route, a host route, *)
(* two entries of the same prefix) and every destination.                  *)
(***************************************************************************)
RouteEntries ==
    {Route(0, 0, 10, 2), Route(4, 12, 0, 1), Route(4, 12, 10, 2),
     Route(4, 14, 0, 1), Route(6, 15, 0, 2), Route(8, 12, 0, 2)}

Tables == UNION {[1..n -> RouteEntries] : n \in 0..MaxRoutes}

InitLookup == routing_table \in Tables /\ InitCtx

\* Line 318: the lookup for the datagram being dispatched.
Lookup ==
    /\ \E d \in IP :
           frame' = [IPFrame(ETHERTYPE_IP, 1, 6, d, 2, IPPROTO_UDP, 0, 0, 0, << >>)
                        EXCEPT !.id = 1]
    /\ forward_entry' = chirouter_get_matching_entry(routing_table, frame')
    /\ UNCHANGED <<routing_table, arpcache, pending_arp_reqs, lock_arp,
                   mutexKind, pc, forward_ip, pending_req, ret, log, nrecv,
                   snap, nsweeps, nalloc>>

NextLookup == Lookup

SpecLookup == InitLookup /\ [][NextLookup]_vars

(***************************************************************************)
(* Reading the history.                                                    *)
(***************************************************************************)
Max(S) == CHOOSE x \in S : \A y \in S : y <= x

IsIPFrame(f) == ntohs(f.type) \in {ETHERTYPE_IP, ETHERTYPE_IPV6}

IsArpReply(f) == ntohs(f.type) = ETHERTYPE_ARP /\ ntohs(f.op) = ARP_OP_REPLY

IsArpRequestFor(e, n) ==
    e.kind = "arp" /\ ntohs(e.f.op) = ARP_OP_REQUEST /\ e.f.tpa = n

\* The position of the delivery of the current frame, 0 before the first.
LastRecv ==
    IF nrecv = 0 THEN 0
    ELSE CHOOSE i \in DOMAIN log : log[i].kind = "recv" /\ log[i].id = nrecv

\* The entries logged since position i.
Since(i) == SubSeq(log, i + 1, Len(log))

\* No dispatch call is in progress.
Ended == pc \in {"idle", "shutdown", "crashed", "deadlocked"}

Returned == pc \in {"idle", "shutdown"}

Ids(fs) == [i \in 1..Len(fs) |-> fs[i].id]

PendingFor(n) == SelectSeq(pending_arp_reqs, LAMBDA r : r.ip = n)

PendingIn(reqs, n) == SelectSeq(reqs, LAMBDA r : r.ip = n)

\* The frames withheld for n in the list reqs (of its first request).
WithheldIn(reqs, n) ==
    IF PendingIn(reqs, n) = << >> THEN << >>
    ELSE PendingIn(reqs, n)[1].withheld_frames

\* What the current dispatch call has logged so far.
ThisCall == Since(LastRecv)

\* call is the part of the history a dispatch call has logged.
\* The frame of the call found no cache entry for its next hop n.
Missed(call, n) ==
    \E i \in DOMAIN call : call[i].kind = "miss" /\ call[i].ip = n

\* The timer has dropped the pending request for n during the call.
Expired(call, n) ==
    \E i \in DOMAIN call : call[i].kind = "expire" /\ call[i].ip = n

\* The ARP requests for n that the dispatch call has sent.
Requests(call, n) ==
    SelectSeq(call, LAMBDA e : e.by = "dispatch" /\ IsArpRequestFor(e, n))

\* The datagram-level actions (forwarded copy or ICMP message) of the call.
Actions(call) == SelectSeq(call, LAMBDA e : e.kind \in {"fwd", "icmp"})

\* Everything the call has put on the wire.
Sent(call) == SelectSeq(call, LAMBDA e : e.kind \in {"fwd", "icmp", "arp"})

\* The ARP message is addressed to the interface it arrived on.
ForMe(f) == f.tpa = interfaces[f.in_interface].ip

\* What the dispatch thread itself has put on the wire during the call.
SentByDispatch(call) == SelectSeq(Sent(call), LAMBDA e : e.by = "dispatch")

\* The actions of the call that concern inbound datagram id.
ActionsFor(call, id) == SelectSeq(Actions(call), LAMBDA e : e.id = id)

\* The routing entries that (destination & mask) == network selects.
Matches(rt, d) == {i \in DOMAIN rt : BitAnd(d, rt[i].mask) = rt[i].dest}

\* The datagram is addressed to the interface it arrived on.
IsSelfDestined(f) == IsIPFrame(f) /\ f.dst = interfaces[f.in_interface].ip

\* The <<type, code>> of each ICMP message in a list of actions.
IcmpKinds(acts) ==
    [i \in 1..Len(acts) |-> << acts[i].f.icmp_type, acts[i].f.icmp_code >>]

(***************************************************************************)
(* C1.  Frames to an unresolved next hop.                                  *)
(***************************************************************************)
\* An ARP reply for n: one that names n as its sender or as the address it
\* is sent to.
ReplyNaming(f, n) == IsArpReply(f) /\ (f.spa = n \/ f.tpa = n)

C2_ReplyDrainsQueue ==
    (/\ Ended
     /\ IsArpReply(frame)
     /\ ForMe(frame)
     /\ PendingIn(snap.reqs, frame.spa) # << >>
     /\ ~Expired(ThisCall, frame.spa))
    => LET fs == WithheldIn(snap.reqs, frame.spa)
           fw == SelectSeq(ThisCall, LAMBDA e : e.kind = "fwd")
       IN  /\ Len(fw) = Len(fs)
           /\ \A i \in 1..Len(fs) : /\ fw[i].id = fs[i].id
                                    /\ fw[i].f.ttl = fs[i].ttl - 1
           /\ PendingFor(frame.spa) = << >>

(***************************************************************************)
(* C3.  TTL 1 in the drain.                                                *)
(***************************************************************************)
\* The frames that were withheld when the current frame arrived and whose
\* pending request the call has removed.
Drained ==
    {w \in UNION {{r.withheld_frames[k] : k \in DOMAIN r.withheld_frames} :
                     r \in {snap.reqs[j] : j \in DOMAIN snap.reqs}} :
        \E j \in DOMAIN snap.reqs :
            /\ \E k \in DOMAIN snap.reqs[j].withheld_frames :
                   snap.reqs[j].withheld_frames[k] = w
            /\ ~Live(pending_arp_reqs, snap.reqs[j].rid)
            /\ ~Expired(ThisCall, snap.reqs[j].ip)}

\* C3: when the dispatch of an ARP reply has ended, every frame it drained
\* that had arrived with TTL 1 got exactly one ICMP time-exceeded message
\* and was not forwarded, and every other drained frame was forwarded once
\* with its TTL one lower.
C3_DrainChecksTtl ==
    (Ended /\ IsArpReply(frame)) =>
        \A w \in Drained :
            LET acts == ActionsFor(ThisCall, w.id)
            IN  /\ Len(acts) = 1
                /\ IF w.ttl = 1
                   THEN /\ acts[1].kind = "icmp"
                        /\ acts[1].f.icmp_type = ICMPTYPE_TIME_EXCEEDED
                   ELSE /\ acts[1].kind = "fwd"
                        /\ acts[1].f.ttl = w.ttl - 1

(***************************************************************************)
(* C4.  An ARP reply nobody waits for.                                     *)
(***************************************************************************)
\* C4: when the dispatch of an ARP reply addressed to the ingress interface
\* has ended and no pending request for its sender existed when it arrived,
\* the call has returned 0, has transmitted nothing, holds the sender's
\* hardware address in the cache unless the timer purged it, and has left
\* the pending requests to the timer.
C4_ReplyWithoutPending ==
    (/\ Ended
     /\ IsArpReply(frame)
     /\ ForMe(frame)
     /\ PendingIn(snap.reqs, frame.spa) = << >>)
    => /\ Returned
       /\ ret = 0
       /\ SentByDispatch(ThisCall) = << >>
       /\ arpcache[frame.spa] \in {frame.sha, 0}
       /\ \A i \in DOMAIN pending_arp_reqs :
              \E j \in DOMAIN snap.reqs :
                  snap.reqs[j].rid = pending_arp_reqs[i].rid

(***************************************************************************)
(* C5.  The pending-request check and the mutation that follows it.        *)
(***************************************************************************)
\* C5: nothing acts on the pending requests between the lookup and the
\* creation or the append that follows it: the request an append is about
\* to write to is still in the list, a creation still finds no request for
\* its target, and the list never holds two requests for one target.
C5_CheckAndMutateAtomic ==
    /\ pc = "append" => Live(pending_arp_reqs, pending_req)
    /\ pc = "create" => PendingFor(forward_ip) = << >>
    /\ \A n \in IP : Len(PendingFor(n)) <= 1

(***************************************************************************)
(* C6.  One action per inbound datagram.                                   *)
(***************************************************************************)
\* C6: of every inbound frame at most one forwarded copy or ICMP message
\* about it has been transmitted, by the dispatch call itself, by a later
\* drain or by the timer.
C6_AtMostOneAction ==
    LET acts == Actions(log)
    IN  \A id \in 1..nrecv :
            Cardinality({i \in DOMAIN acts : acts[i].id = id}) <= 1

\* A datagram that was withheld for ARP resolution has been forwarded by a
\* later drain, and that is the only action it caused.
C6_Witness ==
    \E id \in 1..nrecv :
        /\ \E i \in DOMAIN log : log[i].kind = "miss" /\ log[i].id = id
        /\ \E i \in DOMAIN log : log[i].kind = "fwd" /\ log[i].id = id
        /\ id < nrecv
        /\ Len(ActionsFor(log, id)) = 1

(***************************************************************************)
(* C7.  Datagrams addressed to the router.                                 *)
(***************************************************************************)
\* The answer that the priority list over (protocol, TTL, ICMP type) gives.
PriorityAnswer(f) ==
    IF f.proto = IPPROTO_TCP \/ f.proto = IPPROTO_UDP
    THEN << ICMPTYPE_DEST_UNREACHABLE, ICMPCODE_DEST_PORT_UNREACHABLE >>
    ELSE IF f.ttl = 1
    THEN << ICMPTYPE_TIME_EXCEEDED, 0 >>
    ELSE IF f.proto = IPPROTO_ICMP /\ f.icmp_type = ICMPTYPE_ECHO_REQUEST
    THEN << ICMPTYPE_ECHO_REPLY, 0 >>
    ELSE << ICMPTYPE_DEST_UNREACHABLE, ICMPCODE_DEST_PROTOCOL_UNREACHABLE >>

\* An ICMP message other than an echo request, with a TTL other than 1.
OtherIcmp(f) ==
    /\ f.proto = IPPROTO_ICMP
    /\ f.ttl # 1
    /\ f.icmp_type # ICMPTYPE_ECHO_REQUEST

\* Everything the call transmitted is an ICMP message about the dispatched
\* frame, sent to its source on the interface it arrived on.
AnswersFrame(call) ==
    \A i \in DOMAIN call :
        call[i].kind = "recv" \/
            /\ call[i].kind = "icmp"
            /\ call[i].id = frame.id
            /\ call[i].iface = frame.in_interface
            /\ call[i].f.dst = frame.src

\* C7 as stated: every self-destined datagram is answered with exactly one
\* ICMP message, the one the priority list gives, protocol-unreachable for
\* an ICMP message that is not an echo request included.
C7_OneAnswerByPriority ==
    (Returned /\ IsSelfDestined(frame)) =>
        /\ AnswersFrame(ThisCall)
        /\ IcmpKinds(Actions(ThisCall)) = << PriorityAnswer(frame) >>

\* C7 amended: a self-destined ICMP message that is not an echo request and
\* whose TTL is not 1 is answered with nothing; every other self-destined
\* datagram is answered with exactly one ICMP message, the one the priority
\* list gives.
C7_OneAnswerOrSilence ==
    (Returned /\ IsSelfDestined(frame)) =>
        /\ AnswersFrame(ThisCall)
        /\ IcmpKinds(Actions(ThisCall)) =
               IF OtherIcmp(frame) THEN << >> ELSE << PriorityAnswer(frame) >>

\* Both orders of priority have been exercised: a TCP datagram with TTL 1
\* was answered with port-unreachable, and the current frame, an ICMP
\* message that is not an echo request, was answered with nothing.
C7_Witness ==
    /\ Returned
    /\ IsSelfDestined(frame)
    /\ OtherIcmp(frame)
    /\ Actions(ThisCall) = << >>
    /\ \E i \in DOMAIN log :
        /\ log[i].kind = "recv"
        /\ log[i].f.proto = IPPROTO_TCP
        /\ log[i].f.ttl = 1
        /\ IcmpKinds(ActionsFor(log, log[i].id)) =
               << << ICMPTYPE_DEST_UNREACHABLE, ICMPCODE_DEST_PORT_UNREACHABLE >> >>

(***************************************************************************)
(* C8.  The echo reply.                                                    *)
(***************************************************************************)
\* The payload of the ICMP message in a transmitted frame, as far as the
\* total length of its IP header reaches.
IcmpPayload(f) ==
    SubSeq(f.payload, 1, ntohs(f.len) - IP_HDR_SIZE - ICMP_HDR_SIZE)

\* C8: a self-destined echo request with a TTL above 1 is answered with
\* exactly one echo reply that carries the identifier, the sequence number
\* and the payload of the request.
C8_EchoReplyMirrorsRequest ==
    (/\ Returned
     /\ IsSelfDestined(frame)
     /\ frame.proto = IPPROTO_ICMP
     /\ frame.icmp_type = ICMPTYPE_ECHO_REQUEST
     /\ frame.ttl > 1)
    => LET acts == Actions(ThisCall)
       IN  /\ Len(acts) = 1
           /\ acts[1].f.icmp_type = ICMPTYPE_ECHO_REPLY
           /\ acts[1].f.ident = frame.ident
           /\ IcmpPayload(acts[1].f) = frame.payload
           /\ acts[1].f.seq = frame.seq

(***************************************************************************)
(* C9.  The route lookup.                                                  *)
(***************************************************************************)
\* C9: the lookup returns no entry exactly when no entry matches the
\* destination; otherwise it returns a matching entry whose mask no other
\* matching entry exceeds, and no matching entry of that same mask stands
\* earlier in the table.
C9_LongestPrefixEarliest ==
    frame.id # 0 =>
        LET m == Matches(routing_table, frame.dst)
        IN  IF m = {} THEN forward_entry = 0
            ELSE /\ forward_entry \in m
                 /\ \A j \in m :
                        \/ routing_table[j].mask < routing_table[forward_entry].mask
                        \/ /\ routing_table[j].mask = routing_table[forward_entry].mask
                           /\ forward_entry <= j

\* The lookup chose the first of two matching entries of the largest mask,
\* which stand behind a matching entry of a smaller mask.
C9_Witness ==
    /\ frame.id # 0
    /\ forward_entry = 2
    /\ Matches(routing_table, frame.dst) = {1, 2, 3}
    /\ routing_table[1].mask < routing_table[2].mask
    /\ routing_table[3].mask = routing_table[2].mask
    /\ routing_table[3] # routing_table[2]

(***************************************************************************)
(* C10.  No route.                                                         *)
(***************************************************************************)
\* The datagram is addressed to no interface of the router and no routing
\* entry matches its destination.
Unroutable(f) ==
    /\ IsIPFrame(f)
    /\ \A i \in DOMAIN interfaces : interfaces[i].ip # f.dst
    /\ Matches(routing_table, f.dst) = {}

\* C10: the dispatch of an unroutable datagram transmits exactly one frame,
\* a destination-unreachable/net-unreachable message about it to its source
\* on the ingress interface, changes neither the ARP cache nor the pending
\* requests, and returns 0.
C10_NetUnreachable ==
    [][(nrecv' = nrecv + 1 /\ Unroutable(frame')) =>
          LET out == SubSeq(log', Len(log) + 2, Len(log'))
          IN  /\ Len(out) = 1
              /\ out[1].kind = "icmp"
              /\ out[1].id = frame'.id
              /\ out[1].iface = frame'.in_interface
              /\ out[1].f.dst = frame'.src
              /\ out[1].f.icmp_type = ICMPTYPE_DEST_UNREACHABLE
              /\ out[1].f.icmp_code = ICMPCODE_DEST_NET_UNREACHABLE
              /\ arpcache' = arpcache
              /\ pending_arp_reqs' = pending_arp_reqs
              /\ pc' = "idle"
              /\ ret' = 0]_vars

\* An unroutable datagram with TTL 1 has been answered with net-unreachable
\* while a pending request was waiting.
C10_Witness ==
    /\ pc = "idle"
    /\ Unroutable(frame)
    /\ frame.ttl = 1
    /\ pending_arp_reqs # << >>
    /\ pending_arp_reqs = snap.reqs
    /\ IcmpKinds(Actions(ThisCall)) =
           << << ICMPTYPE_DEST_UNREACHABLE, ICMPCODE_DEST_NET_UNREACHABLE >> >>

(***************************************************************************)
(* C11.  Every dispatch call returns.                                      *)
(***************************************************************************)
\* C11: the dispatch thread is never blocked for ever in a
\* pthread_mutex_lock on the ARP lock.
C11_NeverBlocksOnLock == pc # "deadlocked"

(***************************************************************************)
(* C12.  No pending request stays for ever.                                *)
(***************************************************************************)
\* C12: while the router runs, every pending request is eventually removed
\* from the list, by a drain or by the timer.
C12_PendingEventuallyRemoved ==
    \A r \in 1..MaxFrames :
        Live(pending_arp_reqs, r)
            ~> (~Live(pending_arp_reqs, r) \/ pc = "crashed")

(***************************************************************************)
(* C13.  Frames of another EtherType.                                      *)
(***************************************************************************)
\* The frame is neither an IP datagram nor an ARP message.
IsOtherFrame(f) ==
    /\ f.id # 0
    /\ ntohs(f.type) \notin {ETHERTYPE_IP, ETHERTYPE_IPV6, ETHERTYPE_ARP}

\* C13: the dispatch of a frame that is neither IP nor ARP transmits
\* nothing, changes neither the ARP cache nor the pending requests, and
\* returns 0.
C13_OtherFrameDropped ==
    [][(nrecv' = nrecv + 1 /\ IsOtherFrame(frame')) =>
          /\ Len(log') = Len(log) + 1
          /\ arpcache' = arpcache
          /\ pending_arp_reqs' = pending_arp_reqs
          /\ pc' = "idle"
          /\ ret' = 0]_vars

(***************************************************************************)
(* C14.  Datagrams addressed to another interface of the router.           *)
(***************************************************************************)
\* The datagram is addressed to an interface of the router other than the
\* one it arrived on.
ToOtherInterface(f) ==
    /\ IsIPFrame(f)
    /\ ~IsSelfDestined(f)
    /\ \E i \in DOMAIN interfaces : interfaces[i].ip = f.dst

\* C14: the dispatch of a datagram addressed to another interface of the
\* router transmits exactly one frame, a destination-unreachable/
\* host-unreachable message about it to its source on the ingress
\* interface, and returns 0 at once: no route is looked up, nothing is
\* forwarded, and the pending requests and the ARP cache stay as they are.
C14_HostUnreachable ==
    [][(nrecv' = nrecv + 1 /\ ToOtherInterface(frame')) =>
          LET out == SubSeq(log', Len(log) + 2, Len(log'))
          IN  /\ Len(out) = 1
              /\ out[1].kind = "icmp"
              /\ out[1].id = frame'.id
              /\ out[1].iface = frame'.in_interface
              /\ out[1].f.dst = frame'.src
              /\ out[1].f.icmp_type = ICMPTYPE_DEST_UNREACHABLE
              /\ out[1].f.icmp_code = ICMPCODE_DEST_HOST_UNREACHABLE
              /\ forward_entry' = forward_entry
              /\ arpcache' = arpcache
              /\ pending_arp_reqs' = pending_arp_reqs
              /\ pc' = "idle"
              /\ ret' = 0]_vars

\* A datagram for another interface, whose address a routing entry covers,
\* has been answered with host-unreachable while a pending request was
\* waiting.
C14_Witness ==
    /\ pc = "idle"
    /\ ToOtherInterface(frame)
    /\ Matches(routing_table, frame.dst) # {}
    /\ pending_arp_reqs # << >>
    /\ pending_arp_reqs = snap.reqs
    /\ IcmpKinds(Actions(ThisCall)) =
           << << ICMPTYPE_DEST_UNREACHABLE, ICMPCODE_DEST_HOST_UNREACHABLE >> >>

(***************************************************************************)
(* C15.  What forwarding changes in the IP header.                         *)
(***************************************************************************)
\* Inbound frame id as it arrived.
Arrival(id) ==
    log[CHOOSE j \in DOMAIN log : log[j].kind = "recv" /\ log[j].id = id].f

\* C15: every forwarded datagram carries the TTL it arrived with less one
\* and the source and destination address it arrived with.
C15_ForwardKeepsAddresses ==
    \A i \in DOMAIN log :
        log[i].kind = "fwd" =>
            LET r == Arrival(log[i].id)
            IN  /\ log[i].f.ttl = r.ttl - 1
                /\ log[i].f.src = r.src
                /\ log[i].f.dst = r.dst

(***************************************************************************)
(* C16.  The link-layer addresses of a forwarded frame.                    *)
(***************************************************************************)
\* C16: every forwarded frame is transmitted on the interface of the
\* routing entry that matches the destination it arrived with, with that
\* interface's address as its Ethernet source and with an Ethernet
\* destination other than the router's own address it arrived with.
C16_ForwardReaddressed ==
    \A i \in DOMAIN log :
        log[i].kind = "fwd" =>
            LET r == Arrival(log[i].id)
                e == chirouter_get_matching_entry(routing_table, r)
            IN  /\ e # 0
                /\ log[i].iface = routing_table[e].interface
                /\ log[i].f.eth_src = interfaces[log[i].iface].mac
                /\ log[i].f.eth_dst # r.eth_dst

(***************************************************************************)
(* C17.  The interface of the ARP request.                                 *)
(***************************************************************************)
\* The routing entry that matches inbound frame f.
EntryOf(f) == routing_table[chirouter_get_matching_entry(routing_table, f)]

\* C17: every ARP request the dispatch thread sends for a withheld datagram
\* goes out on the interface of the routing entry that matches the
\* datagram, with the datagram's next hop as its target, and every pending
\* request records the interface of the entry that matches its first
\* withheld frame.
C17_RequestOnEgress ==
    /\ \A i \in DOMAIN log :
           (/\ log[i].kind = "arp"
            /\ log[i].by = "dispatch"
            /\ ntohs(log[i].f.op) = ARP_OP_REQUEST)
           => LET r == Arrival(log[i].id)
              IN  /\ log[i].f.tpa = get_forward_ip(EntryOf(r), r.dst)
                  /\ log[i].iface = EntryOf(r).interface
    /\ \A j \in DOMAIN pending_arp_reqs :
           pending_arp_reqs[j].withheld_frames # << >> =>
               pending_arp_reqs[j].interface
                   = EntryOf(pending_arp_reqs[j].withheld_frames[1]).interface

(***************************************************************************)
(* C18.  The pending requests while the ARP lock is free.                  *)
(***************************************************************************)
\* C18: whenever the ARP lock is free, every pending request holds at least
\* one withheld frame and no two pending requests have the same target.
C18_PendingWellFormed ==
    lock_arp = "free" =>
        /\ \A i \in DOMAIN pending_arp_reqs :
               pending_arp_reqs[i].withheld_frames # << >>
        /\ \A i, j \in DOMAIN pending_arp_reqs :
               pending_arp_reqs[i].ip = pending_arp_reqs[j].ip => i = j

\* With the lock free, two pending requests for different targets exist,
\* one of them with two withheld frames.
C18_Witness ==
    /\ lock_arp = "free"
    /\ pc = "idle"
    /\ Len(pending_arp_reqs) = 2
    /\ \E i \in DOMAIN pending_arp_reqs :
           Len(pending_arp_reqs[i].withheld_frames) = 2

(***************************************************************************)
(* C19.  The cache hit after an ARP reply.                                 *)
(***************************************************************************)
\* An ARP reply from n, addressed to the interface it arrived on, has been
\* dispatched.
ReplyDispatched(n) ==
    \E i \in DOMAIN log :
        /\ log[i].kind = "recv"
        /\ IsArpReply(log[i].f)
        /\ ForMe(log[i].f)
        /\ log[i].f.spa = n

\* C19: when the cache lookup for the next hop of a routable datagram is
\* made after an ARP reply from that next hop has been dispatched, and the
\* cache still holds the entry, the call ends at once with exactly one
\* transmission, the forwarded datagram with its TTL one lower, or an ICMP
\* time-exceeded message if it arrived with TTL 1, and returns 0; it sends
\* no ARP request and leaves the pending requests as they are.
C19_CacheHitAfterReply ==
    [][(/\ pc = "cache_lookup"
        /\ pc' # "cache_lookup"
        /\ ReplyDispatched(forward_ip)
        /\ arpcache[forward_ip] # 0)
       => LET out == SubSeq(log', Len(log) + 1, Len(log'))
          IN  /\ Len(out) = 1
              /\ out[1].id = frame.id
              /\ IF frame.ttl = 1
                 THEN /\ out[1].kind = "icmp"
                      /\ out[1].f.icmp_type = ICMPTYPE_TIME_EXCEEDED
                 ELSE /\ out[1].kind = "fwd"
                      /\ out[1].f.ttl = frame.ttl - 1
              /\ pending_arp_reqs' = pending_arp_reqs
              /\ pc' = "idle"
              /\ ret' = 0]_vars

\* A datagram whose next hop had answered with an ARP reply before has been
\* forwarded by the call that received it, without a cache miss.
C19_Witness ==
    /\ pc = "idle"
    /\ IsIPFrame(frame)
    /\ ReplyDispatched(forward_ip)
    /\ \A n \in IP : ~Missed(ThisCall, n)
    /\ Len(ThisCall) = 1
    /\ ThisCall[1].kind = "fwd"
    /\ ThisCall[1].id = frame.id
    /\ pending_arp_reqs = snap.reqs

(***************************************************************************)
(* C20.  Lock and unlock of the ARP lock.                                  *)
(***************************************************************************)
\* C20: the dispatch thread has never called pthread_mutex_lock on the ARP
\* lock while holding it (no build has had to show what that call does),
\* and after every dispatch call that has returned the lock is free.
C20_LockBalanced ==
    /\ mutexKind = "unknown"
    /\ Returned => lock_arp = "free"

====
